---- MODULE Spec2Model ----
(***************************************************************************)
(* Model of butler_robot.py (class RobotButler): the intake loop, the      *)
(* process_order threads, the modification listeners they start and the   *)
(* SIGINT handler, sharing state, goal_location, order_queue, lock,       *)
(* is_goal_cancel and move_base_client.                                    *)
(*                                                                         *)
(* Granularity: a thread's step runs from one blocking call (input,       *)
(* select, lock.acquire, wait_for_result, join) to the next.  The run is  *)
(* modelled up to the operator's "exit".                                   *)
(***************************************************************************)
EXTENDS Integers, Sequences, FiniteSets, TLC

\* ---------------------------------------------------------------- bounds
MaxSpawn == 2      \* process_order threads the intake loop may start
MaxSignals == 1    \* SIGINTs delivered
MaxBatch == 2      \* entries in one comma separated line of input
MaxQueue == 2      \* cap on the length of order_queue

\* ------------------------------------------------------------- constants
WAYPOINTS == {"kitchen", "home", "table1", "table2", "table3"}

IDLE == "IDLE"
DELIVERY == "DELIVERY"
WAITING_CONFIRMATION == "WAITING_CONFIRMATION"
CANCELED == "CANCELED"

\* what the operator may type between the commas of a table list
Tokens == {"1", "2", "99"}
Lines == UNION {[1..n -> Tokens] : n \in 1..MaxBatch}

Procs == 1..MaxSpawn
\* threads that send goals
H == <<"H", 0>>
P(p) == <<"P", p>>
L(p) == <<"L", p>>
NoThread == <<"none", 0>>

VARIABLES
  state,          \* self.state
  goal_location,  \* self.goal_location ("None" before the first assignment)
  order_queue,    \* self.order_queue
  lock,           \* holder of self.lock: "free" or a thread
  is_goal_cancel, \* self.is_goal_cancel
  mbc,            \* self.move_base_client: status of its goal, thread waiting on it
  ipc,            \* position of get_orders_from_user
  hpc,            \* position of signal_handler
  ppc,            \* position of each process_order thread
  lpc,            \* position of each modify_orders_while_moving thread
  current_table,  \* process_order's local current_table
  nsig,           \* SIGINTs delivered so far
  track,          \* the history a specification records (never changes)
  removed,        \* history: the tables the running cycle's listener removed
  emptied,        \* history: that listener emptied the queue on the kitchen leg
  sig_active,     \* history: a SIGINT arrived while a cycle was running
  rejected        \* history: the batch the intake loop read last had no valid table

history == <<track, removed, emptied, sig_active, rejected>>

vars == <<state, goal_location, order_queue, lock, is_goal_cancel, mbc, ipc,
          hpc, ppc, lpc, current_table, nsig, history>>

\* a cycle is running: the thread has set DELIVERY (line 142) and has not
\* reached its return
Active(p) == ppc[p] \notin {"none", "start", "done", "crashed"}

\* the history of cycle p ends with the cycle
Forget(p) ==
  /\ removed' = [removed EXCEPT ![p] = {}]
  /\ emptied' = [emptied EXCEPT ![p] = FALSE]
  /\ UNCHANGED <<track, sig_active, rejected>>

\* ------------------------------------------------------------ pure parts
RECURSIVE SelectSeq2(_, _)
\* the elements of s that are in set S, order kept
SelectSeq2(s, S) ==
  IF s = <<>> THEN <<>>
  ELSE IF Head(s) \in S THEN <<Head(s)>> \o SelectSeq2(Tail(s), S)
       ELSE SelectSeq2(Tail(s), S)

Range(s) == {s[i] : i \in 1..Len(s)}

\* f"table{table.strip()}" for every entry of the split line
TableNames(line) == [i \in 1..Len(line) |-> "table" \o line[i]]

\* an intake that takes every entry, registered or not
IntakeValidMut(line) == TableNames(line)

\* get_orders_from_user: the entries that name a waypoint
IntakeValid(line) == SelectSeq2(TableNames(line), WAYPOINTS)

\* add_tables: the entries that name a waypoint and are not queued yet
AddValid(line, q) == SelectSeq2(TableNames(line), WAYPOINTS \ Range(q))

\* modify_orders_while_moving: the entries that are queued
ToRemove(line, q) == SelectSeq2(TableNames(line), Range(q))

\* list.remove(x): drops the first occurrence of x
RemoveFirst(q, x) ==
  LET i == CHOOSE k \in 1..Len(q) : q[k] = x /\ \A j \in 1..(k-1) : q[j] # x
  IN SubSeq(q, 1, i-1) \o SubSeq(q, i+1, Len(q))

RECURSIVE RemoveAll(_, _)
\* for table in tables_to_remove: if table in queue: queue.remove(table)
RemoveAll(q, rs) ==
  IF rs = <<>> THEN q
  ELSE IF Head(rs) \in Range(q) THEN RemoveAll(RemoveFirst(q, Head(rs)), Tail(rs))
       ELSE RemoveAll(q, Tail(rs))

IsTable(loc) == loc \in {"table1", "table2", "table3"}


\* ------------------------------------------------- navigation (send_goal)
\* the client made in __init__: it never had a goal
NoClient == [st |-> "LOST", by |-> NoThread]

\* lines 115-120: a fresh client replaces self.move_base_client and gets the
\* goal.  A cancel_goal() issued just before (lines 52, 234) acts on the client
\* this one replaces, whose creator then reads the new client's state.
SendGoal(t) == [st |-> "ACTIVE", by |-> t]

\* lines 121-129: wait_for_result returns on the thread's own goal, get_state
\* then reads self.move_base_client, which another thread may have replaced.
\* The set of (returned value, client afterwards) the call can produce.
GoalResults(t) ==
  IF mbc.by = t
  THEN {[ok |-> TRUE, m |-> [st |-> "SUCCEEDED", by |-> NoThread]],
        [ok |-> FALSE, m |-> [st |-> "ABORTED", by |-> NoThread]]}
  ELSE {[ok |-> (mbc.st = "SUCCEEDED"), m |-> mbc]}

\* return_to_kitchen lines 291-294: get_state() == SUCCEEDED and is_goal_cancel
ChainHome(m, flag) == m.st = "SUCCEEDED" /\ flag

\* ------------------------------------------------------------------ Init
\* the state __init__ leaves (lines 37-46)
Constructed ==
  /\ state = IDLE
  /\ goal_location = "None"
  /\ order_queue = <<>>
  /\ lock = "free"
  /\ is_goal_cancel = FALSE
  /\ mbc = NoClient
  /\ ipc = "poll"
  /\ hpc = "idle"
  /\ ppc = [p \in Procs |-> "none"]
  /\ lpc = [p \in Procs |-> "none"]
  /\ current_table = [p \in Procs |-> "None"]
  /\ nsig = 0
  /\ removed = [p \in Procs |-> {}]
  /\ emptied = [p \in Procs |-> FALSE]
  /\ sig_active = FALSE
  /\ rejected = FALSE

Init == Constructed /\ track = {}
InitRemoved == Constructed /\ track = {"removed"}
InitEmptied == Constructed /\ track = {"emptied"}
InitSignal == Constructed /\ track = {"signal"}
InitIntake == Constructed /\ track = {"intake"}

\* ---------------------------------------------------- get_orders_from_user
\* line 74: the loop sees state == IDLE and blocks in input()
IntakePoll ==
  /\ ipc = "poll"
  /\ state = IDLE
  /\ ipc' = "input"
  /\ rejected' = FALSE
  /\ UNCHANGED <<state, goal_location, order_queue, lock, is_goal_cancel, mbc,
                 hpc, ppc, lpc, current_table, nsig, track, removed, emptied,
                 sig_active>>

\* lines 75-95: a line arrives; under the lock the valid tables are appended
\* and, if there is one, a process_order thread is started
IntakeOrder(line) ==
  /\ ipc = "input"
  /\ lock = "free"
  /\ LET valid_tables == IntakeValid(line) IN
       IF valid_tables # <<>>
       THEN /\ \E p \in Procs :
                 /\ ppc[p] = "none"
                 /\ \A r \in Procs : r < p => ppc[r] # "none"
                 /\ ppc' = [ppc EXCEPT ![p] = "start"]
            /\ Len(order_queue) + Len(valid_tables) <= MaxQueue
            /\ order_queue' = order_queue \o valid_tables
       ELSE UNCHANGED <<order_queue, ppc>>
  /\ ipc' = "poll"
  /\ rejected' = ("intake" \in track /\ IntakeValid(line) = <<>>)
  /\ UNCHANGED <<state, goal_location, lock, is_goal_cancel, mbc, hpc, lpc,
                 current_table, nsig, track, removed, emptied, sig_active>>

\* ------------------------------------------------------------ process_order
\* a test that only rejects a running delivery
MayBeginMut(s) == s # DELIVERY

\* line 137: the test that lets a cycle begin
MayBegin(s) == s = IDLE

\* lines 136-140: state is not IDLE, "Robot is busy with another task"
ProcessReject(p) ==
  /\ ppc[p] = "start"
  /\ lock = "free"
  /\ ~MayBegin(state)
  /\ ppc' = [ppc EXCEPT ![p] = "done"]
  /\ UNCHANGED <<state, goal_location, order_queue, lock, is_goal_cancel, mbc,
                 ipc, hpc, lpc, current_table, nsig, history>>

\* lines 136-146: state is IDLE; DELIVERY is set under the lock and the
\* modification listener is started
ProcessBegin(p) ==
  /\ ppc[p] = "start"
  /\ lock = "free"
  /\ MayBegin(state)
  /\ state' = DELIVERY
  /\ lpc' = [lpc EXCEPT ![p] = "loop"]
  /\ ppc' = [ppc EXCEPT ![p] = "kitchen"]
  /\ UNCHANGED <<goal_location, order_queue, lock, is_goal_cancel, mbc, ipc,
                 hpc, current_table, nsig, history>>

\* move_to_kitchen lines 246-249, up to wait_for_result
MoveToKitchen(p) ==
  /\ ppc[p] = "kitchen"
  /\ goal_location' = "kitchen"
  /\ mbc' = SendGoal(P(p))
  /\ ppc' = [ppc EXCEPT ![p] = "kitchen_wait"]
  /\ UNCHANGED <<state, order_queue, lock, is_goal_cancel, ipc, hpc, lpc,
                 current_table, nsig, history>>

\* lines 148, 153: where process_order goes when move_to_kitchen returns ok
AfterKitchenMove(ok) == IF ok THEN "prompt" ELSE "kitchen_failed"

\* lines 148-153, 319: the result of move_to_kitchen; on success the kitchen
\* gate is entered, which sets goal_location
KitchenResult(p) ==
  /\ ppc[p] = "kitchen_wait"
  /\ \E r \in GoalResults(P(p)) :
       /\ mbc' = r.m
       /\ ppc' = [ppc EXCEPT ![p] = AfterKitchenMove(r.ok)]
       /\ goal_location' = IF ppc'[p] = "prompt" THEN "kitchen" ELSE goal_location
  /\ UNCHANGED <<state, order_queue, lock, is_goal_cancel, ipc, hpc, lpc,
                 current_table, nsig, history>>

\* an abort that does not write state
AbortStateMut(s) == s

\* line 150: the state the aborted cycle leaves
AbortState(s) == IDLE

\* lines 149-151: "Failed to reach the kitchen, aborting task", state = IDLE
\* (written without the lock), return
KitchenAbort(p) ==
  /\ ppc[p] = "kitchen_failed"
  /\ state' = AbortState(state)
  /\ ppc' = [ppc EXCEPT ![p] = "done"]
  /\ UNCHANGED <<goal_location, order_queue, lock, is_goal_cancel, mbc, ipc,
                 hpc, lpc, current_table, nsig>>
  /\ Forget(p)

\* ------------------------------------------------- wait_for_confirmation
\* the location argument: "kitchen" at line 153, current_table at line 169
GateLocation(p) == IF current_table[p] = "None" THEN "kitchen" ELSE current_table[p]

\* a confirmed kitchen gate that goes to the loop without the join
AfterGateNoJoin(p, b) ==
  IF current_table[p] = "None"
  THEN IF b THEN "loop" ELSE "no_confirm_wait"
  ELSE IF b THEN "loop" ELSE "unconfirmed"

\* a kitchen gate whose False does not end the cycle
AfterGateMut(p, b) ==
  IF current_table[p] = "None"
  THEN "join"
  ELSE IF b THEN "loop" ELSE "unconfirmed"

\* where process_order continues when the gate returns b: lines 153-159 at
\* the kitchen (after a False, return_to_home is in flight), 169-174 at a table
AfterGate(p, b) ==
  IF GateLocation(p) = "kitchen"
  THEN IF b THEN "join" ELSE "no_confirm_wait"
  ELSE IF b THEN "loop" ELSE "unconfirmed"

\* the gate returns b to process_order; line 155 sends return_to_home when
\* the kitchen gate returned False
GateReturn(p, b) ==
  /\ ppc' = [ppc EXCEPT ![p] = AfterGate(p, b)]
  /\ mbc' = IF AfterGate(p, b) = "no_confirm_wait" THEN SendGoal(P(p)) ELSE mbc

\* lines 333-337 and 365: "yes" breaks out of the loop, the gate returns True
GateYes(p) ==
  /\ ppc[p] = "prompt"
  /\ GateReturn(p, TRUE)
  /\ UNCHANGED <<state, goal_location, order_queue, lock, is_goal_cancel,
                 ipc, hpc, lpc, current_table, nsig, history>>

\* lines 338-342 and 365: "no" breaks out of the loop, the gate returns False
GateNo(p) ==
  /\ ppc[p] = "prompt"
  /\ GateReturn(p, FALSE)
  /\ UNCHANGED <<state, goal_location, order_queue, lock, is_goal_cancel,
                 ipc, hpc, lpc, current_table, nsig, history>>

\* lines 328-329, 343-348: no input or an invalid one, and state is CANCELED
GateCanceled(p) ==
  /\ ppc[p] = "prompt"
  /\ state = CANCELED
  /\ GateReturn(p, FALSE)
  /\ UNCHANGED <<state, goal_location, order_queue, lock, is_goal_cancel,
                 ipc, hpc, lpc, current_table, nsig, history>>

\* a table timeout that skips return_to_kitchen
TimeoutRecoveryMut(loc) == "gate_home_wait"

\* lines 350-362: the first forced move after a window with no yes/no
TimeoutRecovery(loc) == IF IsTable(loc) THEN "gate_kitchen_wait" ELSE "gate_home_wait"

\* lines 326, 350-362: the window elapses with no yes/no received (the last
\* iteration saw state # CANCELED): at a table return_to_kitchen is called,
\* elsewhere return_to_home
GateTimeout(p) ==
  /\ ppc[p] = "prompt"
  /\ state # CANCELED
  /\ mbc' = SendGoal(P(p))
  /\ ppc' = [ppc EXCEPT ![p] = TimeoutRecovery(GateLocation(p))]
  /\ UNCHANGED <<state, goal_location, order_queue, lock, is_goal_cancel, ipc,
                 hpc, lpc, current_table, nsig, history>>

\* line 356, return_to_kitchen line 288: send_goal returns
GateKitchenResult(p) ==
  /\ ppc[p] = "gate_kitchen_wait"
  /\ \E r \in GoalResults(P(p)) : mbc' = r.m
  /\ ppc' = [ppc EXCEPT ![p] = "gate_kitchen_check"]
  /\ UNCHANGED <<state, goal_location, order_queue, lock, is_goal_cancel, ipc,
                 hpc, lpc, current_table, nsig, history>>

\* return_to_kitchen lines 291-295, line 357: if the client is SUCCEEDED and
\* is_goal_cancel is set, return_to_home is chained; otherwise the gate goes on
\* to its own return_to_home
GateKitchenCheck(p) ==
  /\ ppc[p] = "gate_kitchen_check"
  /\ mbc' = SendGoal(P(p))
  /\ ppc' = [ppc EXCEPT ![p] = IF ChainHome(mbc, is_goal_cancel)
                               THEN "gate_chain_wait" ELSE "gate_home_wait"]
  /\ UNCHANGED <<state, goal_location, order_queue, lock, is_goal_cancel, ipc,
                 hpc, lpc, current_table, nsig, history>>

\* return_to_kitchen lines 295-296, then line 357: the chained home goal ends,
\* is_goal_cancel is cleared, the gate's return_to_home is sent
GateChainResult(p) ==
  /\ ppc[p] = "gate_chain_wait"
  /\ is_goal_cancel' = FALSE
  /\ mbc' = SendGoal(P(p))
  /\ ppc' = [ppc EXCEPT ![p] = "gate_home_wait"]
  /\ UNCHANGED <<state, goal_location, order_queue, lock, ipc, hpc, lpc,
                 current_table, nsig, history>>

\* lines 357-358 / 362-363: the gate's return_to_home ends, the gate returns
\* False (at the kitchen line 155 then sends return_to_home again)
GateHomeResult(p) ==
  /\ ppc[p] = "gate_home_wait"
  /\ \E r \in GoalResults(P(p)) :
       /\ ppc' = [ppc EXCEPT ![p] = AfterGate(p, FALSE)]
       /\ mbc' = IF AfterGate(p, FALSE) = "no_confirm_wait"
                 THEN SendGoal(P(p)) ELSE r.m
  /\ UNCHANGED <<state, goal_location, order_queue, lock, is_goal_cancel, ipc,
                 hpc, lpc, current_table, nsig, history>>

\* -------------------------------------------- process_order, lines 153-181
\* lines 155-157: return_to_home ends, state = IDLE, return
NoConfirmEnd(p) ==
  /\ ppc[p] = "no_confirm_wait"
  /\ \E r \in GoalResults(P(p)) : mbc' = r.m
  /\ state' = IDLE
  /\ ppc' = [ppc EXCEPT ![p] = "done"]
  /\ UNCHANGED <<goal_location, order_queue, lock, is_goal_cancel, ipc, hpc,
                 lpc, current_table, nsig>>
  /\ Forget(p)

\* line 159: modify_thread.join()
Join(p) ==
  /\ ppc[p] = "join"
  /\ lpc[p] = "done"
  /\ ppc' = [ppc EXCEPT ![p] = "loop"]
  /\ UNCHANGED <<state, goal_location, order_queue, lock, is_goal_cancel, mbc,
                 ipc, hpc, lpc, current_table, nsig, history>>

\* line 161: the loop condition
LoopContinues(q, s) == q # <<>> /\ s # CANCELED

\* line 161 true: the body is entered
LoopEnter(p) ==
  /\ ppc[p] = "loop"
  /\ LoopContinues(order_queue, state)
  /\ ppc' = [ppc EXCEPT ![p] = "pop"]
  /\ UNCHANGED <<state, goal_location, order_queue, lock, is_goal_cancel, mbc,
                 ipc, hpc, lpc, current_table, nsig, history>>

\* line 162: the element pop(0) takes
Popped(q) == Head(q)

\* line 162: the queue pop(0) leaves
AfterPop(q) == Tail(q)

\* lines 162-165, 277-280: pop(0), goal_location, the goal to the table is
\* sent.  pop(0) on a queue emptied since line 161 raises IndexError and the
\* thread dies.
PopAndMove(p) ==
  /\ ppc[p] = "pop"
  /\ IF order_queue = <<>>
     THEN /\ ppc' = [ppc EXCEPT ![p] = "crashed"]
          /\ UNCHANGED <<order_queue, current_table, goal_location, mbc>>
          /\ Forget(p)
     ELSE /\ current_table' = [current_table EXCEPT ![p] = Popped(order_queue)]
          /\ order_queue' = AfterPop(order_queue)
          /\ goal_location' = current_table'[p]
          /\ mbc' = SendGoal(P(p))
          /\ ppc' = [ppc EXCEPT ![p] = "table_wait"]
          /\ UNCHANGED history
  /\ UNCHANGED <<state, lock, is_goal_cancel, ipc, hpc, lpc, nsig>>

\* a failed table move that aborts the cycle as a failed kitchen move does
AfterTableMoveMut(ok) == IF ok THEN "prompt" ELSE "kitchen_failed"

\* lines 165-167: where process_order goes when move_to_table returns ok
AfterTableMove(ok) == IF ok THEN "prompt" ELSE "table_failed"

\* lines 165-169, 319: the result of move_to_table; a failure skips the stop,
\* a success enters the gate, which sets goal_location
TableResult(p) ==
  /\ ppc[p] = "table_wait"
  /\ \E r \in GoalResults(P(p)) :
       /\ mbc' = r.m
       /\ ppc' = [ppc EXCEPT ![p] = AfterTableMove(r.ok)]
       /\ goal_location' = IF ppc'[p] = "prompt" THEN current_table[p]
                           ELSE goal_location
  /\ UNCHANGED <<state, order_queue, lock, is_goal_cancel, ipc, hpc, lpc,
                 current_table, nsig, history>>

\* lines 166-167 and 170-174: the move failed or the stop was not confirmed;
\* continue with the loop
TableSkip(p) ==
  /\ ppc[p] \in {"table_failed", "unconfirmed"}
  /\ ppc' = [ppc EXCEPT ![p] = "loop"]
  /\ UNCHANGED <<state, goal_location, order_queue, lock, is_goal_cancel, mbc,
                 ipc, hpc, lpc, current_table, nsig, history>>

\* lines 176-180: the recovery after the loop
FinalMove(s) == IF s = CANCELED THEN "final_kitchen_wait" ELSE "final_home_wait"

\* lines 161, 176-180: the loop is over; return_to_kitchen if state is
\* CANCELED, return_to_home otherwise
LoopExit(p) ==
  /\ ppc[p] = "loop"
  /\ ~LoopContinues(order_queue, state)
  /\ mbc' = SendGoal(P(p))
  /\ ppc' = [ppc EXCEPT ![p] = FinalMove(state)]
  /\ UNCHANGED <<state, goal_location, order_queue, lock, is_goal_cancel, ipc,
                 hpc, lpc, current_table, nsig, history>>

\* line 178, return_to_kitchen line 288: send_goal returns
FinalKitchenResult(p) ==
  /\ ppc[p] = "final_kitchen_wait"
  /\ \E r \in GoalResults(P(p)) : mbc' = r.m
  /\ ppc' = [ppc EXCEPT ![p] = "final_kitchen_check"]
  /\ UNCHANGED <<state, goal_location, order_queue, lock, is_goal_cancel, ipc,
                 hpc, lpc, current_table, nsig, history>>

\* return_to_kitchen lines 291-295, line 181: return_to_home is chained if the
\* client is SUCCEEDED and is_goal_cancel is set; otherwise state = IDLE and
\* the thread ends
FinalKitchenCheck(p) ==
  /\ ppc[p] = "final_kitchen_check"
  /\ IF ChainHome(mbc, is_goal_cancel)
     THEN /\ mbc' = SendGoal(P(p))
          /\ ppc' = [ppc EXCEPT ![p] = "final_chain_wait"]
          /\ state' = state
          /\ UNCHANGED history
     ELSE /\ mbc' = mbc
          /\ ppc' = [ppc EXCEPT ![p] = "done"]
          /\ state' = IDLE
          /\ Forget(p)
  /\ UNCHANGED <<goal_location, order_queue, lock, is_goal_cancel, ipc, hpc,
                 lpc, current_table, nsig>>

\* return_to_kitchen lines 295-296, line 181: the chained home goal ends,
\* is_goal_cancel is cleared, state = IDLE
FinalChainResult(p) ==
  /\ ppc[p] = "final_chain_wait"
  /\ \E r \in GoalResults(P(p)) : mbc' = r.m
  /\ is_goal_cancel' = FALSE
  /\ state' = IDLE
  /\ ppc' = [ppc EXCEPT ![p] = "done"]
  /\ UNCHANGED <<goal_location, order_queue, lock, ipc, hpc, lpc,
                 current_table, nsig>>
  /\ Forget(p)

\* lines 180-181: return_to_home ends, state = IDLE
FinalHomeResult(p) ==
  /\ ppc[p] = "final_home_wait"
  /\ \E r \in GoalResults(P(p)) : mbc' = r.m
  /\ state' = IDLE
  /\ ppc' = [ppc EXCEPT ![p] = "done"]
  /\ UNCHANGED <<goal_location, order_queue, lock, is_goal_cancel, ipc, hpc,
                 lpc, current_table, nsig>>
  /\ Forget(p)

\* ----------------------------------------------- modify_orders_while_moving
\* line 188 false: the loop ends
ListenerStateExit(p) ==
  /\ lpc[p] = "loop"
  /\ state # DELIVERY
  /\ lpc' = [lpc EXCEPT ![p] = "done"]
  /\ UNCHANGED <<state, goal_location, order_queue, lock, is_goal_cancel, mbc,
                 ipc, hpc, ppc, current_table, nsig, history>>

\* lines 188-207: state is DELIVERY; select times out, or "none", "add" or
\* "remove" is read ("add" and "remove" then block in input())
ListenerCommand(p, cmd) ==
  /\ lpc[p] = "loop"
  /\ state = DELIVERY
  /\ lpc' = [lpc EXCEPT ![p] = CASE cmd = "add" -> "add"
                                 [] cmd = "remove" -> "remove"
                                 [] OTHER -> "done"]
  /\ UNCHANGED <<state, goal_location, order_queue, lock, is_goal_cancel, mbc,
                 ipc, hpc, ppc, current_table, nsig, history>>

\* add_tables lines 258-271, then break
ListenerAdd(p, line) ==
  /\ lpc[p] = "add"
  /\ LET valid_tables == AddValid(line, order_queue) IN
       /\ Len(order_queue) + Len(valid_tables) <= MaxQueue
       /\ order_queue' = order_queue \o valid_tables
  /\ lpc' = [lpc EXCEPT ![p] = "done"]
  /\ UNCHANGED <<state, goal_location, lock, is_goal_cancel, mbc, ipc, hpc,
                 ppc, current_table, nsig, history>>

\* lines 210-238: nothing to remove continues the loop; otherwise the tables
\* are removed and, if the queue is now empty, the goal is cancelled and
\* return_to_home is sent
ListenerRemove(p, line) ==
  /\ lpc[p] = "remove"
  /\ LET tables_to_remove == ToRemove(line, order_queue) IN
       IF tables_to_remove = <<>>
       THEN /\ lpc' = [lpc EXCEPT ![p] = "loop"]
            /\ UNCHANGED <<order_queue, mbc, removed, emptied>>
       ELSE /\ order_queue' = RemoveAll(order_queue, tables_to_remove)
            /\ removed' = IF "removed" \in track /\ Active(p)
                          THEN [removed EXCEPT ![p] = @ \cup Range(tables_to_remove)]
                          ELSE removed
            /\ IF order_queue' = <<>>
               THEN /\ mbc' = SendGoal(L(p))
                    /\ lpc' = [lpc EXCEPT ![p] = "home_wait"]
                    /\ emptied' = IF "emptied" \in track /\ ppc[p] = "kitchen_wait"
                                  THEN [emptied EXCEPT ![p] = TRUE]
                                  ELSE emptied
               ELSE /\ mbc' = mbc
                    /\ lpc' = [lpc EXCEPT ![p] = "done"]
                    /\ emptied' = emptied
  /\ UNCHANGED <<state, goal_location, lock, is_goal_cancel, ipc, hpc, ppc,
                 current_table, nsig, track, sig_active, rejected>>

\* lines 235-237: return_to_home ends, state = IDLE, return
ListenerIdle(p) ==
  /\ lpc[p] = "home_wait"
  /\ \E r \in GoalResults(L(p)) : mbc' = r.m
  /\ state' = IDLE
  /\ lpc' = [lpc EXCEPT ![p] = "done"]
  /\ UNCHANGED <<goal_location, order_queue, lock, is_goal_cancel, ipc, hpc,
                 ppc, current_table, nsig, history>>

\* ------------------------------------------------------------ signal_handler
\* SIGINT is delivered; the handler starts in the main thread (line 49)
Signal ==
  /\ hpc = "idle"
  /\ nsig < MaxSignals
  /\ nsig' = nsig + 1
  /\ hpc' = "acquire"
  /\ sig_active' = (sig_active \/ ("signal" \in track /\ \E p \in Procs : Active(p)))
  /\ UNCHANGED <<state, goal_location, order_queue, lock, is_goal_cancel, mbc,
                 ipc, ppc, lpc, current_table, track, removed, emptied, rejected>>

\* lines 54-65: the recovery the handler chooses for a goal_location
HandlerRoute(loc) ==
  IF loc = "kitchen" THEN "home"
  ELSE IF loc # "None" /\ IsTable(loc) THEN "kitchen"
  ELSE "home"

\* lines 50-65: lock, state = CANCELED, cancel_goal, the branch on
\* goal_location, the recovery goal is sent (the lock is held)
HandlerCancel ==
  /\ hpc = "acquire"
  /\ lock = "free"
  /\ lock' = H
  /\ state' = CANCELED
  /\ mbc' = SendGoal(H)
  /\ IF HandlerRoute(goal_location) = "kitchen"
     THEN /\ is_goal_cancel' = TRUE
          /\ hpc' = "kitchen_wait"
     ELSE /\ is_goal_cancel' = is_goal_cancel
          /\ hpc' = "home_wait"
  /\ UNCHANGED <<goal_location, order_queue, ipc, ppc, lpc, current_table, nsig, history>>

\* return_to_kitchen line 288 in the handler: send_goal returns
HandlerKitchenResult ==
  /\ hpc = "kitchen_wait"
  /\ \E r \in GoalResults(H) : mbc' = r.m
  /\ hpc' = "kitchen_check"
  /\ UNCHANGED <<state, goal_location, order_queue, lock, is_goal_cancel, ipc,
                 ppc, lpc, current_table, nsig, history>>

\* return_to_kitchen lines 291-295, line 67: return_to_home is chained if the
\* client is SUCCEEDED and is_goal_cancel is set; otherwise the lock is released
HandlerKitchenCheck ==
  /\ hpc = "kitchen_check"
  /\ IF ChainHome(mbc, is_goal_cancel)
     THEN /\ mbc' = SendGoal(H)
          /\ hpc' = "chain_wait"
          /\ lock' = lock
     ELSE /\ mbc' = mbc
          /\ hpc' = "idle"
          /\ lock' = "free"
  /\ UNCHANGED <<state, goal_location, order_queue, is_goal_cancel, ipc, ppc,
                 lpc, current_table, nsig, history>>

\* return_to_kitchen lines 295-296, line 67: the chained home goal ends,
\* is_goal_cancel is cleared, the lock is released
HandlerChainResult ==
  /\ hpc = "chain_wait"
  /\ \E r \in GoalResults(H) : mbc' = r.m
  /\ is_goal_cancel' = FALSE
  /\ lock' = "free"
  /\ hpc' = "idle"
  /\ UNCHANGED <<state, goal_location, order_queue, ipc, ppc, lpc,
                 current_table, nsig, history>>

\* lines 56 / 65, 67: return_to_home ends, the lock is released
HandlerHomeResult ==
  /\ hpc = "home_wait"
  /\ \E r \in GoalResults(H) : mbc' = r.m
  /\ lock' = "free"
  /\ hpc' = "idle"
  /\ UNCHANGED <<state, goal_location, order_queue, is_goal_cancel, ipc, ppc,
                 lpc, current_table, nsig, history>>

\* ------------------------------------------------------------------- Next
Commands == {"timeout", "none", "add", "remove"}

\* the steps of the intake loop and of the process_order threads
Delivery ==
  \/ IntakePoll
  \/ \E line \in Lines : IntakeOrder(line)
  \/ \E p \in Procs : ProcessReject(p)
  \/ \E p \in Procs : ProcessBegin(p)
  \/ \E p \in Procs : MoveToKitchen(p)
  \/ \E p \in Procs : KitchenResult(p)
  \/ \E p \in Procs : KitchenAbort(p)
  \/ \E p \in Procs : GateYes(p)
  \/ \E p \in Procs : GateNo(p)
  \/ \E p \in Procs : GateTimeout(p)
  \/ \E p \in Procs : GateKitchenResult(p)
  \/ \E p \in Procs : GateKitchenCheck(p)
  \/ \E p \in Procs : GateHomeResult(p)
  \/ \E p \in Procs : NoConfirmEnd(p)
  \/ \E p \in Procs : Join(p)
  \/ \E p \in Procs : LoopEnter(p)
  \/ \E p \in Procs : PopAndMove(p)
  \/ \E p \in Procs : TableResult(p)
  \/ \E p \in Procs : TableSkip(p)
  \/ \E p \in Procs : LoopExit(p)
  \/ \E p \in Procs : FinalHomeResult(p)

\* the steps process_order takes only after a SIGINT (state is CANCELED or
\* is_goal_cancel is set)
Canceling ==
  \/ \E p \in Procs : GateCanceled(p)
  \/ \E p \in Procs : GateChainResult(p)
  \/ \E p \in Procs : FinalKitchenResult(p)
  \/ \E p \in Procs : FinalKitchenCheck(p)
  \/ \E p \in Procs : FinalChainResult(p)

\* the steps of the modification listeners
Listening ==
  \/ \E p \in Procs : ListenerStateExit(p)
  \/ \E p \in Procs, cmd \in Commands : ListenerCommand(p, cmd)
  \/ \E p \in Procs, line \in Lines : ListenerAdd(p, line)
  \/ \E p \in Procs, line \in Lines : ListenerRemove(p, line)
  \/ \E p \in Procs : ListenerIdle(p)

\* SIGINT and the steps of its handler
Interrupt ==
  \/ Signal
  \/ HandlerCancel
  \/ HandlerKitchenResult
  \/ HandlerKitchenCheck
  \/ HandlerChainResult
  \/ HandlerHomeResult

Next == Delivery \/ Canceling \/ Listening \/ Interrupt

\* the runs in which no SIGINT arrives
NextNoSignal == Delivery \/ Listening

\* the runs in which the operator never answers the listener's prompt
NextNoCommand ==
  \/ Delivery
  \/ Canceling
  \/ \E p \in Procs : ListenerStateExit(p)
  \/ \E p \in Procs : ListenerCommand(p, "timeout")
  \/ Interrupt

\* every run of the program
Spec == Init /\ [][Next]_vars

\* runs without SIGINT, recording what the running cycle's listener removed
SpecRemoved == InitRemoved /\ [][NextNoSignal]_vars

\* runs without SIGINT, recording a queue emptied on the kitchen leg
SpecEmptied == InitEmptied /\ [][NextNoSignal]_vars

\* runs without listener commands, recording a SIGINT during a cycle
SpecSignal == InitSignal /\ [][NextNoCommand]_vars

\* all behaviours, recording the batches the intake loop rejected
SpecIntake == InitIntake /\ [][Next]_vars

\* ================================================================ claims
\* process_order thread p takes a step
Steps(p) == ppc'[p] # ppc[p]

\* C1: process_order begins a cycle only from state = IDLE, setting DELIVERY
\* in the same locked step; called with any other state it returns and leaves
\* state, the queue, goal_location, is_goal_cancel and the navigation client
\* as they were.
C1_BeginOnlyWhenIdle ==
  [][\A p \in Procs :
       /\ (~Active(p) /\ Active(p)') => (ppc[p] = "start" /\ state = IDLE)
       /\ (ppc[p] = "start" /\ Steps(p)) =>
            /\ lock = "free"
            /\ IF state = IDLE
               THEN state' = DELIVERY /\ ppc'[p] = "kitchen"
               ELSE /\ ppc'[p] = "done"
                    /\ UNCHANGED <<state, order_queue, goal_location,
                                   is_goal_cancel, mbc>>]_vars

\* a call of process_order was rejected while another cycle was running
C1_Witness ==
  \E p, q \in Procs : ppc[p] = "done" /\ lpc[p] = "none" /\ Active(q)

\* C2: at most one process_order thread is past the IDLE check and not yet
\* finished.
C2_OneActiveCycle == Cardinality({p \in Procs : Active(p)}) <= 1

\* C3: a table the running cycle's listener removed from the queue is not
\* the target of a later table move of that cycle.
C3_RemovedNeverVisited ==
  \A p \in Procs : ppc[p] = "table_wait" => current_table[p] \notin removed[p]

\* C4 (as claimed): the handler called with goal_location a table sets
\* is_goal_cancel and sends the kitchen goal, and when process_order's
\* return_to_kitchen of the CANCELED path ends after the handler has
\* returned, is_goal_cancel is false.
C4_FlagClearedAtEnd ==
  [][/\ (hpc = "acquire" /\ hpc' # "acquire" /\ IsTable(goal_location)) =>
          (is_goal_cancel' /\ hpc' = "kitchen_wait" /\ mbc' = SendGoal(H))
     /\ \A p \in Procs :
          (/\ ppc[p] \in {"final_kitchen_check", "final_chain_wait"}
           /\ ppc'[p] = "done"
           /\ hpc = "idle") => ~is_goal_cancel']_vars

\* C5: once the listener has emptied the queue while its cycle was on the
\* way to the kitchen, that cycle sends no goal to a table.
C5_NoTableAfterEmptied == \A p \in Procs : emptied[p] => ppc[p] # "table_wait"

\* no thread is running or waiting to run
Quiescent ==
  /\ hpc = "idle"
  /\ \A p \in Procs : ppc[p] \in {"none", "done"} /\ lpc[p] \in {"none", "done"}

\* C6: after a SIGINT that arrived during a cycle, once the handler and all
\* threads have finished, state is IDLE.
C6_InterruptEndsIdle == (sig_active /\ Quiescent) => state = IDLE

\* C7: a window without yes/no at a table sends the kitchen goal, then the
\* home goal, reports not-confirmed, and process_order goes back to the loop
\* condition; a cycle that ends leaves state = IDLE.
C7_TableTimeout ==
  [][\A p \in Procs :
       /\ (IsTable(GateLocation(p)) /\ Steps(p)) =>
            /\ ppc[p] = "prompt" =>
                 /\ ppc'[p] \in {"loop", "unconfirmed", "gate_kitchen_wait"}
                 /\ ppc'[p] = "gate_kitchen_wait" => mbc' = SendGoal(P(p))
            /\ ppc[p] = "gate_kitchen_wait" => ppc'[p] = "gate_kitchen_check"
            /\ ppc[p] = "gate_kitchen_check" =>
                 /\ ppc'[p] \in {"gate_chain_wait", "gate_home_wait"}
                 /\ mbc' = SendGoal(P(p))
            /\ ppc[p] = "gate_chain_wait" =>
                 (ppc'[p] = "gate_home_wait" /\ mbc' = SendGoal(P(p)))
            /\ ppc[p] = "gate_home_wait" => ppc'[p] = "unconfirmed"
            /\ ppc[p] = "unconfirmed" =>
                 (ppc'[p] = "loop" /\ order_queue' = order_queue)
       /\ (ppc[p] = "loop" /\ Steps(p) /\ LoopContinues(order_queue, state)) =>
            ppc'[p] = "pop"
       /\ (Active(p) /\ ppc'[p] = "done") => state' = IDLE]_vars

\* the gate's return_to_home is in flight after a window without input at a table
C7_Witness ==
  \E p \in Procs : ppc[p] = "gate_home_wait" /\ IsTable(current_table[p])

\* C8: when the kitchen gate does not return True, return_to_home is sent,
\* and the cycle ends with state = IDLE without popping the queue or moving
\* to a table.
C8_KitchenNotConfirmed ==
  [][\A p \in Procs :
       (GateLocation(p) = "kitchen" /\ Steps(p)) =>
         /\ ppc[p] = "prompt" =>
              /\ ppc'[p] \in {"join", "gate_home_wait", "no_confirm_wait"}
              /\ ppc'[p] # "join" =>
                   (mbc' = SendGoal(P(p)) /\ order_queue' = order_queue)
         /\ ppc[p] = "gate_home_wait" =>
              /\ ppc'[p] = "no_confirm_wait"
              /\ mbc' = SendGoal(P(p))
              /\ order_queue' = order_queue
         /\ ppc[p] = "no_confirm_wait" =>
              /\ ppc'[p] = "done"
              /\ state' = IDLE
              /\ order_queue' = order_queue
              /\ current_table'[p] = "None"]_vars

\* return_to_home is in flight after the kitchen gate returned False
C8_Witness == \E p \in Procs : ppc[p] = "no_confirm_wait"

\* C9: when move_to_kitchen fails, process_order sets state = IDLE and
\* returns; it sends no goal and leaves the queue as it was.
C9_KitchenFailureAborts ==
  [][\A p \in Procs :
       /\ (ppc[p] = "kitchen_wait" /\ Steps(p)) =>
            /\ ppc'[p] \in {"prompt", "kitchen_failed"}
            /\ order_queue' = order_queue
       /\ (ppc[p] = "kitchen_failed" /\ Steps(p)) =>
            /\ ppc'[p] = "done"
            /\ state' = IDLE
            /\ UNCHANGED <<order_queue, mbc, goal_location>>]_vars

\* move_to_kitchen has failed with tables queued
C9_Witness ==
  \E p \in Procs : ppc[p] = "kitchen_failed" /\ order_queue # <<>>

\* C10: a failed table move goes back to the loop condition without a new
\* goal and without touching the queue; the loop pops the head each time and
\* sends one goal to it; with state # CANCELED the cycle ends with
\* return_to_home and state = IDLE.
C10_FailedTableSkipped ==
  [][\A p \in Procs :
       /\ (ppc[p] = "table_wait" /\ Steps(p)) =>
            /\ ppc'[p] \in {"prompt", "table_failed"}
            /\ UNCHANGED <<order_queue, current_table>>
       /\ (ppc[p] = "table_failed" /\ Steps(p)) =>
            /\ ppc'[p] = "loop"
            /\ UNCHANGED <<order_queue, mbc, current_table>>
       /\ (ppc[p] = "loop" /\ Steps(p)) =>
            IF LoopContinues(order_queue, state)
            THEN ppc'[p] = "pop" /\ UNCHANGED <<order_queue, mbc>>
            ELSE /\ mbc' = SendGoal(P(p))
                 /\ state # CANCELED => ppc'[p] = "final_home_wait"
       /\ (ppc[p] = "pop" /\ ppc'[p] = "table_wait") =>
            /\ current_table'[p] = Head(order_queue)
            /\ order_queue' = Tail(order_queue)
            /\ mbc' = SendGoal(P(p))
       /\ (ppc[p] = "final_home_wait" /\ Steps(p)) =>
            (ppc'[p] = "done" /\ state' = IDLE)]_vars

\* queue [table1, table2]: the move to table2 has failed, nothing is queued
C10_Witness ==
  \E p \in Procs :
    ppc[p] = "table_failed" /\ current_table[p] = "table2" /\ order_queue = <<>>

\* C11: a step that changes state or order_queue is taken by a thread that
\* holds the lock; so while the handler holds it across a step, neither
\* changes.
C11_WritesUnderLock ==
  [][(lock # "free" /\ lock' # "free") => UNCHANGED <<state, order_queue>>]_vars

\* C12: no thread holds the lock while it waits for a goal's result.
C12_NoLockAcrossNavigation ==
  lock # "free" => hpc \notin {"home_wait", "kitchen_wait", "chain_wait"}

\* C13: a cycle that is in the drain loop (at its condition, popping, moving
\* to a table, at a table's gate) has seen its listener terminate; no pop and
\* no table move happens before.
C13_JoinBeforeDrain ==
  \A p \in Procs :
    (\/ ppc[p] \in {"loop", "pop", "table_wait", "table_failed", "unconfirmed"}
     \/ current_table[p] # "None") => lpc[p] = "done"

\* a table move is in flight, the listener that ran a command has terminated
C13_Witness ==
  \E p \in Procs : ppc[p] = "table_wait" /\ lpc[p] = "done" /\ order_queue # <<>>

\* C14: the elements of order_queue are pairwise distinct.
C14_NoDuplicates ==
  \A i, j \in 1..Len(order_queue) : i # j => order_queue[i] # order_queue[j]

\* no entry of the line names a registered waypoint
AllInvalid(line) == \A i \in 1..Len(line) : ("table" \o line[i]) \notin WAYPOINTS

\* C15: the intake step on a batch with no registered table leaves
\* order_queue and state unchanged, starts no process_order thread and no
\* listener, and ends with the lock free.
C15_InvalidBatchIgnored ==
  [][(ipc = "input" /\ ipc' # "input") =>
       \A line \in Lines :
         (AllInvalid(line) /\ IntakeOrder(line)) =>
           (UNCHANGED <<order_queue, state, ppc, lpc>> /\ lock' = "free")]_vars

\* an invalid batch was the first thing typed: nothing queued, nothing started
C15_Witness ==
  /\ rejected
  /\ ipc = "poll"
  /\ order_queue = <<>>
  /\ state = IDLE
  /\ \A p \in Procs : ppc[p] = "none"

\* C16: with state = CANCELED no process_order thread pops the queue and
\* sends a goal to a table.
C16_NoPopAfterCancel ==
  [][\A p \in Procs :
       state = CANCELED => ~(ppc[p] = "pop" /\ ppc'[p] = "table_wait")]_vars

\* C17: a gate that returns while state is CANCELED returns not-confirmed
\* (process_order does not go on to the join or, at a table, straight back to
\* the loop as after a "yes").
C17_CancelPreemptsYes ==
  [][\A p \in Procs :
       (ppc[p] = "prompt" /\ Steps(p) /\ state = CANCELED) =>
         ppc'[p] = AfterGate(p, FALSE)]_vars

\* no cycle is heading to a table or waiting at one: every process_order
\* thread is outside a cycle or on its final return_to_home
NoneAtTable ==
  \A p \in Procs : ppc[p] \in {"none", "start", "done", "final_home_wait"}

\* C18: a handler that acts while the robot is idle or on the final home leg
\* of a cycle sends only the home goal and leaves is_goal_cancel false.
C18_RouteHomeWhenNotAtTable ==
  [][(hpc = "acquire" /\ hpc' # "acquire" /\ NoneAtTable) =>
       (hpc' = "home_wait" /\ ~is_goal_cancel')]_vars

\* C19: a listener step taken while state is not DELIVERY leaves order_queue
\* and state as they are and sends no goal.
C19_ListenerOnlyInDelivery ==
  [][\A p \in Procs :
       (lpc[p] # "none" /\ lpc'[p] # lpc[p] /\ state # DELIVERY) =>
         /\ UNCHANGED <<order_queue, state>>
         /\ mbc'.st = "ACTIVE" => mbc' = mbc]_vars

\* C20: after SIGINTs that all arrived with no cycle running, once the
\* handler and all threads have finished, state is IDLE.
C20_IdleInterruptRecovers ==
  (nsig > 0 /\ ~sig_active /\ Quiescent) => state = IDLE
====
